---- MODULE Spec2Model ----
(***************************************************************************)
(* A model of optimize.py: the block-coordinate-descent dictionary update  *)
(* ODL_updateD, the ADMM dictionary update DLSI_updateD and the FISTA      *)
(* engine with its Lasso specialisation.                                   *)
(*                                                                         *)
(* Numbers are exact rationals <<numerator, denominator>> in lowest terms  *)
(* with a positive denominator: the arithmetic of the source with the      *)
(* rounding of the floating-point format left out.  Dictionaries D and the *)
(* matrices E, Z, U of the two dictionary updates have ONE ROW (d = 1), so *)
(* that a column is one number, LA.norm(a, 2) is its absolute value and    *)
(* the projection a/max(||a||, 1) stays rational; F is a full K x K        *)
(* matrix, so the coupling of the columns through D.dot(F[:, i]) is kept.  *)
(* The source is Python 2 (xrange, print_function): its semantics are the  *)
(* ones modelled.                                                          *)
(***************************************************************************)
EXTENDS Integers, Sequences, FiniteSets, TLC

VARIABLES
    odl,     \* the frame of one call of ODL_updateD
    dlsi,    \* the frame of one call of DLSI_updateD
    lasso,   \* the fields of one Lasso instance (self)
    fista    \* the frame of one call of Fista.solve on that instance

vars == <<odl, dlsi, lasso, fista>>

(***************************************************************************)
(* Bounds of the model.                                                    *)
(***************************************************************************)
K == 2              \* number of columns (atoms) of D in the dictionary updates
MaxIter == 2        \* largest iteration cap a caller passes to the updates

(***************************************************************************)
(* Exact rational arithmetic.                                              *)
(***************************************************************************)
Abs(n) == IF n < 0 THEN -n ELSE n

RECURSIVE GCD(_, _)
GCD(a, b) == IF b = 0 THEN a ELSE GCD(b, a % b)

Rat(n, d) ==
    LET s == IF d < 0 THEN -1 ELSE 1
        g == GCD(Abs(n), Abs(d))
    IN  <<(s * n) \div g, (s * d) \div g>>

RI(n) == <<n, 1>>
Zero == RI(0)
One == RI(1)

RAdd(a, b) ==
    LET g == GCD(a[2], b[2])
    IN  Rat(a[1] * (b[2] \div g) + b[1] * (a[2] \div g), (a[2] \div g) * b[2])
RNeg(a) == <<-a[1], a[2]>>
RSub(a, b) == RAdd(a, RNeg(b))
RMul(a, b) ==
    LET g1 == GCD(Abs(a[1]), b[2])
        g2 == GCD(Abs(b[1]), a[2])
    IN  Rat((a[1] \div g1) * (b[1] \div g2), (a[2] \div g2) * (b[2] \div g1))
RDiv(a, b) == RMul(a, Rat(b[2], b[1]))
RAbs(a) == <<Abs(a[1]), a[2]>>
RECURSIVE RLt(_, _)
\* a < b, by the integer parts and then the reciprocals of the fractional
\* parts: no product is formed, so that 1e-8 compares without overflow
RLt(a, b) ==
    LET qa == a[1] \div a[2]
        qb == b[1] \div b[2]
        ra == a[1] % a[2]
        rb == b[1] % b[2]
    IN  IF qa # qb THEN qa < qb
        ELSE IF rb = 0 THEN FALSE
        ELSE IF ra = 0 THEN TRUE
        ELSE RLt(<<b[2], rb>>, <<a[2], ra>>)
RLe(a, b) == ~RLt(b, a)
RMax(a, b) == IF RLt(a, b) THEN b ELSE a
RSq(a) == RMul(a, a)

RECURSIVE RSum(_, _)
\* sum of f[1] .. f[n]
RSum(f, n) == IF n = 0 THEN Zero ELSE RAdd(RSum(f, n - 1), f[n])

Cols == 1..K

(***************************************************************************)
(* ODL_updateD                                                             *)
(***************************************************************************)

\* the default tol = 1e-8 of ODL_updateD and of Fista.solve, the fixed tol
\* of DLSI_updateD: 1/TolDen
TolDen == 100000000
Tol == <<1, TolDen>>

\* a nonnegative rational s = p/q is below t*t, for a positive rational
\* t = tn/td:  p * td * td < q * tn * tn, computed without the large product
BelowSquare(s, t) ==
    LET m == s[2] * t[1] * t[1]
    IN  s[1] <= ((m - 1) \div t[2]) \div t[2]

\* utils.numel(D): the number of entries of the one-row D
numel(D) == K

\* utils.normF2(M): the squared Frobenius norm of a one-row matrix
normF2(M) == RSum([j \in Cols |-> RSq(M[j])], K)

\* D.dot(F[:, i]) for the one-row D: sum_j D[j] * F[j][i]
DdotFcol(D, F, i) == RSum([j \in Cols |-> RMul(D[j], F[j][i])], K)

\* a variant that adds D.dot(F[:, i]) where the source subtracts it
ColumnTarget_plus(D, E, F, i) ==
    RAdd(RMul(RDiv(One, F[i][i]), RAdd(E[i], DdotFcol(D, F, i))), D[i])

\* line 38: a = 1.0/F[i,i] * (E[:, i] - D.dot(F[:, i])) + D[:, i]
ColumnTarget(D, E, F, i) ==
    RAdd(RMul(RDiv(One, F[i][i]), RSub(E[i], DdotFcol(D, F, i))), D[i])

\* line 39: a/max(LA.norm(a, 2), 1)
Project(a) == RDiv(a, RMax(RAbs(a), One))

\* a variant that projects a skipped column too
UpdateColumn_projectSkipped(D, E, F, i) ==
    IF F[i][i] # Zero
    THEN [D EXCEPT ![i] = Project(ColumnTarget(D, E, F, i))]
    ELSE [D EXCEPT ![i] = Project(D[i])]

\* lines 37-39: one column's update; a column with F[i,i] = 0 is skipped
UpdateColumn(D, E, F, i) ==
    IF F[i][i] # Zero
    THEN [D EXCEPT ![i] = Project(ColumnTarget(D, E, F, i))]
    ELSE D

\* line 41: LA.norm(D - D_old, 'fro')/sizeD < tol, both sides squared
Converged(D, D_old, tol) ==
    BelowSquare(normF2([j \in Cols |-> RSub(D[j], D_old[j])]),
                RMul(RI(numel(D)), tol))

\* lines 27-28: calc_cost
calc_cost(D, E, F) ==
    RAdd(RMul(RI(-2), RSum([j \in Cols |-> RMul(E[j], D[j])], K)),
         RSum([i \in Cols |-> RMul(D[i], DdotFcol(D, F, i))], K))

RECURSIVE DetOf(_, _, _)
\* determinant of the integer matrix M restricted to the index sequence s
\* (rows) and t (columns), by expansion along the first row
DetOf(M, s, t) ==
    IF Len(s) = 0 THEN 1
    ELSE LET n == Len(s)
             term(c) ==
                 LET t2 == SubSeq(t, 1, c - 1) \o SubSeq(t, c + 1, n)
                     sg == IF c % 2 = 1 THEN 1 ELSE -1
                 IN  sg * M[s[1]][t[c]] * DetOf(M, Tail(s), t2)
             f == [c \in 1..n |-> term(c)]
             sum[c \in 0..n] == IF c = 0 THEN 0 ELSE sum[c - 1] + f[c]
         IN  sum[n]

RECURSIVE SeqOfSet(_)
SeqOfSet(S) ==
    IF S = {} THEN <<>>
    ELSE LET x == CHOOSE y \in S : \A z \in S : y <= z
         IN  <<x>> \o SeqOfSet(S \ {x})

\* a symmetric integer matrix is positive semidefinite iff every principal
\* minor is nonnegative
IsPSD(M) ==
    /\ \A i, j \in Cols : M[i][j] = M[j][i]
    /\ \A S \in SUBSET Cols : DetOf(M, SeqOfSet(S), SeqOfSet(S)) >= 0

\* the inputs a caller passes
DVals == {RI(-2), Zero, Rat(1, 2)}
EVals == {RI(-1), RI(2)}
FDiagVals == {0, 2}
FOffVals == {-1, 0, 1}
PSDs ==
    {M \in [Cols -> [Cols -> FDiagVals \cup FOffVals]] :
        /\ \A i, j \in Cols : M[i][j] \in (IF i = j THEN FDiagVals ELSE FOffVals)
        /\ IsPSD(M)}
ToRat(M) == [i \in Cols |-> [j \in Cols |-> RI(M[i][j])]]
Rows == [Cols -> DVals]
ERows == [Cols -> EVals]

\* the value of a frame, or of the instance, that a specification does not use
IdleODL == [pc |-> "idle"]
IdleDLSI == [pc |-> "idle"]
IdleLasso == [pc |-> "idle"]
IdleFista == [pc |-> "idle"]

\* lines 30-35: the frame after D_old = D.copy(), it = 0, at the head of the
\* for loop; D_in is the caller's D before the call
InitODL ==
    /\ \E D \in Rows, E \in ERows, M \in PSDs, n \in 0..MaxIter :
          odl = [D |-> D, E |-> E, F |-> ToRat(M), iterations |-> n, tol |-> Tol,
                 D_old |-> D, D_in |-> D, it |-> 0, i |-> 1,
                 pc |-> IF n > 0 THEN "sweep" ELSE "done"]
    /\ dlsi = IdleDLSI
    /\ lasso = IdleLasso
    /\ fista = IdleFista

\* a variant that updates every column from the D of the previous sweep
\* (a simultaneous, Jacobi-style sweep)
ODL_column_jacobi ==
    /\ odl.pc = "sweep"
    /\ odl.i <= K
    /\ odl' = [odl EXCEPT
          !.D = [odl.D EXCEPT ![odl.i] =
                    UpdateColumn(odl.D_old, odl.E, odl.F, odl.i)[odl.i]],
          !.i = odl.i + 1,
          !.pc = IF odl.i = K THEN "check" ELSE "sweep"]
    /\ UNCHANGED <<dlsi, lasso, fista>>

\* lines 36-39: the update of column i (index i - 1 of the source)
ODL_column ==
    /\ odl.pc = "sweep"
    /\ odl.i <= K
    /\ odl' = [odl EXCEPT !.D = UpdateColumn(odl.D, odl.E, odl.F, odl.i),
                          !.i = odl.i + 1,
                          !.pc = IF odl.i = K THEN "check" ELSE "sweep"]
    /\ UNCHANGED <<dlsi, lasso, fista>>

\* lines 41-42: the test holds, break
ODL_break ==
    /\ odl.pc = "check"
    /\ Converged(odl.D, odl.D_old, odl.tol)
    /\ odl' = [odl EXCEPT !.pc = "done"]
    /\ UNCHANGED <<dlsi, lasso, fista>>

\* lines 43, 35: D_old = D.copy() and the next value of range(iterations)
ODL_next ==
    /\ odl.pc = "check"
    /\ ~Converged(odl.D, odl.D_old, odl.tol)
    /\ odl' = [odl EXCEPT !.D_old = odl.D,
                          !.it = odl.it + 1,
                          !.i = 1,
                          !.pc = IF odl.it + 1 < odl.iterations
                                 THEN "sweep" ELSE "done"]
    /\ UNCHANGED <<dlsi, lasso, fista>>

NextODL == ODL_column \/ ODL_break \/ ODL_next

SpecODL == InitODL /\ [][NextODL]_vars

(***************************************************************************)
(* Properties of ODL_updateD.                                              *)
(***************************************************************************)
InBall(x) == RLe(RAbs(x), One)
Feasible(D) == \A j \in Cols : InBall(D[j])

\* C1: every column of the D that ODL_updateD returns has norm <= 1
\* whatever the initial D; stated for the calls that make at least one
\* sweep (a call with iterations = 0 returns its argument untouched).
C1_ReturnedColumnsInBall ==
    (odl.pc = "done" /\ odl.iterations >= 1) => Feasible(odl.D)

\* C3: a column i with F[i,i] = 0 holds, at every point of the call and in
\* the D returned, the value it had before the call.
C3_DegenerateColumnUnchanged ==
    odl.pc # "idle" =>
        \A i \in Cols : odl.F[i][i] = Zero => odl.D[i] = odl.D_in[i]

\* C3's case: a call that ran two sweeps has returned, F has a zero
\* diagonal entry and another column has changed.
C3_Witness ==
    /\ odl.pc = "done"
    /\ odl.it >= 1
    /\ \E i \in Cols : odl.F[i][i] = Zero
    /\ \E j \in Cols : odl.D[j] # odl.D_in[j]

\* C7: for an initial D with every column of norm <= 1, the objective
\* -2 trace(E D^T) + trace(D F D^T) at the end of a sweep is at most its
\* value at the end of the sweep before (for the first sweep: its value on
\* the initial D).
C7_ObjectiveNonIncreasing ==
    (odl.pc = "check" /\ Feasible(odl.D_in)) =>
        RLe(calc_cost(odl.D, odl.E, odl.F), calc_cost(odl.D_old, odl.E, odl.F))

\* C7's case: the end of a second sweep that lowered the objective again.
C7_Witness ==
    /\ odl.pc = "check"
    /\ odl.it >= 1
    /\ Feasible(odl.D_in)
    /\ RLt(calc_cost(odl.D, odl.E, odl.F), calc_cost(odl.D_old, odl.E, odl.F))

\* the value a Gauss-Seidel sweep gives column j: computed from the columns
\* before j as the sweep has written them and the columns from j on as the
\* previous sweep left them (D_old)
GaussSeidelColumn(f, j) ==
    LET mixed == [m \in Cols |-> IF m < j THEN f.D[m] ELSE f.D_old[m]]
    IN  IF f.F[j][j] # Zero
        THEN RDiv(RAdd(RMul(RDiv(One, f.F[j][j]),
                            RSub(f.E[j], RSum([m \in Cols |->
                                     RMul(mixed[m], f.F[m][j])], K))),
                       mixed[j]),
                  RMax(RAbs(RAdd(RMul(RDiv(One, f.F[j][j]),
                            RSub(f.E[j], RSum([m \in Cols |->
                                     RMul(mixed[m], f.F[m][j])], K))),
                       mixed[j])), One))
        ELSE f.D_old[j]

\* the value a simultaneous sweep would give column j
JacobiColumn(f, j) == UpdateColumn(f.D_old, f.E, f.F, j)[j]

\* C8: within a sweep the columns are written in index order, column j from
\* the columns before it as written in this sweep and the others as the
\* previous sweep left them; the convergence test is made only when all K
\* columns are written, on D against the D_old of the previous sweep's end,
\* and an early return happens only where that test holds.
C8_GaussSeidelSweep ==
    /\ odl.pc \in {"sweep", "check"} =>
          \A j \in Cols :
              odl.D[j] = IF j < odl.i THEN GaussSeidelColumn(odl, j)
                         ELSE odl.D_old[j]
    /\ odl.pc = "check" => odl.i = K + 1
    /\ (odl.pc = "done" /\ odl.iterations > 0) =>
          IF odl.it < odl.iterations
          THEN /\ Converged(odl.D, odl.D_old, odl.tol)
               /\ \A j \in Cols : odl.D[j] = GaussSeidelColumn(odl, j)
          ELSE odl.D_old = odl.D

\* C8's case: the end of a second sweep in which some column's value is
\* not the one a simultaneous update would have given it.
C8_Witness ==
    /\ odl.pc = "check"
    /\ odl.it >= 1
    /\ \E j \in Cols : odl.D[j] # JacobiColumn(odl, j)

(***************************************************************************)
(* ODL_updateD as a function of its arguments, for the call DLSI_updateD   *)
(* makes of it.                                                            *)
(***************************************************************************)
RECURSIVE SweepFrom(_, _, _, _)
\* lines 36-39: the columns i..K updated in index order, each on the D the
\* earlier ones wrote
SweepFrom(D, E, F, i) ==
    IF i > K THEN D ELSE SweepFrom(UpdateColumn(D, E, F, i), E, F, i + 1)

RECURSIVE ODL_loop(_, _, _, _, _, _, _)
\* lines 35-43: the for loop from its it-th pass on
ODL_loop(D, D_old, E, F, it, iterations, tol) ==
    IF it >= iterations THEN D
    ELSE LET D1 == SweepFrom(D, E, F, 1)
         IN  IF Converged(D1, D_old, tol) THEN D1
             ELSE ODL_loop(D1, D1, E, F, it + 1, iterations, tol)

\* lines 7, 30-44
ODL_updateD(D, E, F, iterations, tol) == ODL_loop(D, D, E, F, 0, iterations, tol)

\* line 7: iterations = 100
ODLDefaultIterations == 100

(***************************************************************************)
(* DLSI_updateD.  A has one row and one column here (A.D is defined for    *)
(* the one-row D), so that X, Y and B1 are numbers.                        *)
(***************************************************************************)

\* utils.inv_IpXY(Y, X) = (I + Y.X)^{-1}, for one-by-one Y and X
inv_IpXY(Y, X) == RDiv(One, RAdd(One, RMul(Y, X)))

Half == Rat(1, 2)

\* line 92: E2 = E + rho/2*(Z_old - U)
E2Of(E, Z_old, U, rho) ==
    [j \in Cols |-> RAdd(E[j], RMul(RMul(rho, Half), RSub(Z_old[j], U[j])))]

\* a variant that passes F itself to the primal update
F2Of_plain(F, rho) == F

\* line 93: F2 = F + rho/2*I_k
F2Of(F, rho) ==
    [i \in Cols |-> [j \in Cols |->
        IF i = j THEN RAdd(F[i][j], RMul(rho, Half)) ELSE F[i][j]]]

\* lines 96-97: V = D + U, Z_new = rho*(V - B1.(Y.V))
ZNewOf(D, U, B1, Y, rho) ==
    [j \in Cols |->
        LET V == RAdd(D[j], U[j])
        IN  RMul(rho, RSub(V, RMul(B1, RMul(Y, V))))]

RowSub(P, Q) == [j \in Cols |-> RSub(P[j], Q[j])]
RowAdd(P, Q) == [j \in Cols |-> RAdd(P[j], Q[j])]
ZeroRow == [j \in Cols |-> Zero]

\* the inputs a caller passes: F diagonal with entries 0 and 1, so that the
\* inner ODL_updateD reaches its fixed point in one sweep and its second
\* sweep ends it
DiagPSDs == {M \in [Cols -> [Cols -> {0, 1}]] : \A i, j \in Cols : i # j => M[i][j] = 0}
AVals == {One}
LambdaVals == {Zero, One}

\* lines 77-87: the frame at the head of the for loop; Z_new, e1 and e2 are
\* not yet assigned there and hold zeros until the first pass writes them
InitDLSI ==
    /\ \E D \in Rows, E \in ERows, M \in DiagPSDs, A \in AVals,
          lambda1 \in LambdaVals, n \in 0..MaxIter :
          LET rho == One
              X == RMul(RDiv(RMul(RI(2), lambda1), rho), A)
              Y == A
          IN  dlsi = [D |-> D, E |-> E, F |-> ToRat(M), A |-> A,
                      lambda1 |-> lambda1, iterations |-> n, D_in |-> D,
                      it |-> 0, rho |-> rho, Z_old |-> D, U |-> ZeroRow,
                      Y |-> Y, B1 |-> RMul(X, inv_IpXY(Y, X)), tol |-> Tol,
                      Z_new |-> ZeroRow, e1 |-> Zero, e2 |-> Zero,
                      pc |-> IF n > 0 THEN "primal" ELSE "done"]
    /\ odl = IdleODL
    /\ lasso = IdleLasso
    /\ fista = IdleFista

\* lines 89-94: it += 1 and the primal update, D = ODL_updateD(D, E2, F2)
DLSI_primal ==
    /\ dlsi.pc = "primal"
    /\ dlsi' = [dlsi EXCEPT
          !.it = dlsi.it + 1,
          !.D = ODL_updateD(dlsi.D, E2Of(dlsi.E, dlsi.Z_old, dlsi.U, dlsi.rho),
                            F2Of(dlsi.F, dlsi.rho), ODLDefaultIterations, Tol),
          !.pc = "aux"]
    /\ UNCHANGED <<odl, lasso, fista>>

\* lines 96-99: Z_new and the two residuals
DLSI_aux ==
    /\ dlsi.pc = "aux"
    /\ LET Z_new == ZNewOf(dlsi.D, dlsi.U, dlsi.B1, dlsi.Y, dlsi.rho)
       IN  dlsi' = [dlsi EXCEPT
             !.Z_new = Z_new,
             !.e1 = normF2(RowSub(dlsi.D, Z_new)),
             !.e2 = RMul(dlsi.rho, normF2(RowSub(Z_new, dlsi.Z_old))),
             !.pc = "check"]
    /\ UNCHANGED <<odl, lasso, fista>>

\* line 100: e1 < tol and e2 < tol
Residual_ok(f) == RLt(f.e1, f.tol) /\ RLt(f.e2, f.tol)

\* lines 100-101: break
DLSI_break ==
    /\ dlsi.pc = "check"
    /\ Residual_ok(dlsi)
    /\ dlsi' = [dlsi EXCEPT !.pc = "done"]
    /\ UNCHANGED <<odl, lasso, fista>>

\* a variant whose dual update takes Z_old where the source takes Z_new
DLSI_dual_stale ==
    /\ dlsi.pc = "check"
    /\ ~Residual_ok(dlsi)
    /\ dlsi' = [dlsi EXCEPT
          !.U = RowSub(RowAdd(dlsi.U, dlsi.D), dlsi.Z_old),
          !.Z_old = dlsi.Z_new,
          !.pc = IF dlsi.it < dlsi.iterations THEN "primal" ELSE "done"]
    /\ UNCHANGED <<odl, lasso, fista>>

\* lines 102-103, 88: the dual update and the next value of range(iterations)
DLSI_dual ==
    /\ dlsi.pc = "check"
    /\ ~Residual_ok(dlsi)
    /\ dlsi' = [dlsi EXCEPT
          !.U = RowSub(RowAdd(dlsi.U, dlsi.D), dlsi.Z_new),
          !.Z_old = dlsi.Z_new,
          !.pc = IF dlsi.it < dlsi.iterations THEN "primal" ELSE "done"]
    /\ UNCHANGED <<odl, lasso, fista>>

NextDLSI == DLSI_primal \/ DLSI_aux \/ DLSI_break \/ DLSI_dual

SpecDLSI == InitDLSI /\ [][NextDLSI]_vars

(***************************************************************************)
(* Properties of DLSI_updateD.                                             *)
(***************************************************************************)

\* C2 as stated: every column of the D that DLSI_updateD returns has norm
\* <= 1, for every call.
C2_ReturnedColumnsInBall_AnyCap ==
    dlsi.pc = "done" => Feasible(dlsi.D)

\* C2 as amended: every column of the D that DLSI_updateD returns has norm
\* <= 1, for every call with iterations >= 1.
C2_ReturnedColumnsInBall ==
    (dlsi.pc = "done" /\ dlsi.iterations >= 1) => Feasible(dlsi.D)

\* C2's case: a call with iterations >= 1 has returned, on an initial D with
\* a column outside the unit ball whose diagonal entry of F is zero.
C2_Witness ==
    /\ dlsi.pc = "done"
    /\ dlsi.iterations >= 1
    /\ \E i \in Cols : ~InBall(dlsi.D_in[i]) /\ dlsi.F[i][i] = Zero

\* two one-row matrices agree to within 1/1000 in every entry
WithinTolerance(P, Q) ==
    \A j \in Cols : RLt(RAbs(RSub(P[j], Q[j])), Rat(1, 1000))

\* C4: a call of DLSI_updateD with lambda1 = 0 that ended by its own
\* convergence test returns, within tolerance, the D that ODL_updateD
\* returns for the same D, E and F; stated for the initial D whose columns
\* are inside the unit ball.
C4_AdmmAgreesWithBCD ==
    (dlsi.pc = "done" /\ dlsi.it >= 1 /\ dlsi.lambda1 = Zero
        /\ Residual_ok(dlsi) /\ Feasible(dlsi.D_in)) =>
        WithinTolerance(dlsi.D,
            ODL_updateD(dlsi.D_in, dlsi.E, dlsi.F, ODLDefaultIterations, Tol))

\* D is what the primal update leaves for the given Z_old and U: a fixed
\* point of the sweep on E + rho/2 (Z_old - U) and F + rho/2 I
PrimalOf(f, Z_old, U) ==
    SweepFrom(f.D, E2Of(f.E, Z_old, U, f.rho), F2Of(f.F, f.rho), 1) = f.D

\* Z_new, e1 and e2 are the ones lines 96-99 compute from D, U and Z_old
AuxOf(f, Z_old, U) ==
    /\ f.Z_new = ZNewOf(f.D, U, f.B1, f.Y, f.rho)
    /\ f.e1 = normF2(RowSub(f.D, f.Z_new))
    /\ f.e2 = RMul(f.rho, normF2(RowSub(f.Z_new, Z_old)))

\* the dual update has been made on the pass that computed Z_new: Z_old is
\* Z_new, and U is the U of that pass plus D - Z_new
DualDone(f) ==
    /\ f.Z_old = f.Z_new
    /\ f.Z_new = ZNewOf(f.D, RowAdd(RowSub(f.U, f.D), f.Z_new), f.B1, f.Y, f.rho)
    /\ ~Residual_ok(f)

MaxCalls == 2       \* number of fit and solve calls made on one instance
MaxPasses == 3      \* largest iteration cap a caller passes to solve
SqrtScale == 10     \* math.sqrt is taken to 1/SqrtScale, rounded down

NRows(M) == Len(M)
NCols(M) == Len(M[1])
Transpose(M) == [j \in 1..NCols(M) |-> [i \in 1..NRows(M) |-> M[i][j]]]
\* np.dot(P, Q)
MatMul(P, Q) ==
    [i \in 1..NRows(P) |-> [j \in 1..NCols(Q) |->
        RSum([m \in 1..NCols(P) |-> RMul(P[i][m], Q[m][j])], NCols(P))]]
MatSub(P, Q) == [i \in 1..NRows(P) |-> [j \in 1..NCols(P) |-> RSub(P[i][j], Q[i][j])]]
MatAdd(P, Q) == [i \in 1..NRows(P) |-> [j \in 1..NCols(P) |-> RAdd(P[i][j], Q[i][j])]]
MatScale(c, P) == [i \in 1..NRows(P) |-> [j \in 1..NCols(P) |-> RMul(c, P[i][j])]]
\* np.zeros((r, c))
Zeros(r, c) == [i \in 1..r |-> [j \in 1..c |-> Zero]]
IsZeros(P) == P = Zeros(NRows(P), NCols(P))

\* utils.norm1(M): the sum of the absolute values of the entries
norm1(M) ==
    RSum([i \in 1..NRows(M) |->
             RSum([j \in 1..NCols(M) |-> RAbs(M[i][j])], NCols(M))], NRows(M))

\* utils.shrinkage(M, t): sign(v).max(|v| - t, 0) on every entry
shrinkage(M, t) ==
    [i \in 1..NRows(M) |-> [j \in 1..NCols(M) |->
        LET v == M[i][j]
            m == RMax(RSub(RAbs(v), t), Zero)
        IN  IF v[1] < 0 THEN RNeg(m) ELSE m]]

RECURSIVE ISqrtIn(_, _, _)
\* the largest r in lo..hi with r*r <= n
ISqrtIn(n, lo, hi) ==
    IF lo >= hi THEN lo
    ELSE LET mid == (lo + hi + 1) \div 2
         IN  IF mid * mid <= n THEN ISqrtIn(n, mid, hi) ELSE ISqrtIn(n, lo, mid - 1)

\* math.sqrt(x) for a rational x >= 0, to 1/SqrtScale rounded down; exact
\* when x is the square of a multiple of 1/SqrtScale.  The momentum t_new
\* of line 125 is irrational from the first pass on, and this rounding
\* stands for the rounding of the floating-point square root.
RSqrt(x) ==
    LET n == (x[1] * SqrtScale * SqrtScale) \div x[2]
    IN  Rat(ISqrtIn(n, 0, 4000), SqrtScale)

\* line 151: np.max(LA.eig(DtD)[0]) for a symmetric DtD with one or two
\* rows: (trace + sqrt(trace^2 - 4 det))/2, exact for the dictionaries below
MaxEig(M) ==
    IF NRows(M) = 1 THEN M[1][1]
    ELSE LET tr == RAdd(M[1][1], M[2][2])
             det == RSub(RMul(M[1][1], M[2][2]), RMul(M[1][2], M[2][1]))
             disc == RSub(RSq(tr), RMul(RI(4), det))
         IN  RMul(Half, RAdd(tr, RSqrt(disc)))

\* the dictionaries, data and weights a caller passes
Mat(M) == [i \in 1..Len(M) |-> [j \in 1..Len(M[1]) |-> RI(M[i][j])]]
Identity(n) == [i \in 1..n |-> [j \in 1..n |-> IF i = j THEN One ELSE Zero]]
Dictionaries ==
    {Identity(1), Identity(2), Mat(<<<<2>>>>), Mat(<<<<1, 1>>>>),
     Mat(<<<<2, 0>>, <<0, 1>>>>)}
YVals == {RI(-2), RI(1)}
YsFor(D) == [1..NRows(D) -> [1..1 -> YVals]]
Lambs == {Zero, Half, RI(3)}
Ones(r, c) == [i \in 1..r |-> [j \in 1..c |-> One]]

\* None, and a local not yet assigned: the empty tuple, which is no matrix
None == <<>>
Unbound == <<>>

\* lines 145-151: Lasso.__init__
LassoNew(D, lamb) ==
    LET DtD == MatMul(Transpose(D), D)
    IN  [D |-> D, lamb |-> lamb, DtD |-> DtD, Y |-> None, DtY |-> None,
         L |-> MaxEig(DtD)]

\* lines 153-155: Lasso.fit
LassoFit(self, Y) ==
    [self EXCEPT !.Y = Y, !.DtY = MatMul(Transpose(self.D), Y)]

\* a variant that adds DtY where the source subtracts it
grad_plus(self, X) == MatAdd(MatMul(self.DtD, X), self.DtY)

\* lines 157-158: Lasso._grad
grad(self, X) == MatSub(MatMul(self.DtD, X), self.DtY)

InitLasso ==
    /\ \E D \in Dictionaries, lamb \in Lambs : lasso = LassoNew(D, lamb)
    /\ fista = [pc |-> "idle", calls |-> 0]
    /\ odl = IdleODL
    /\ dlsi = IdleDLSI

Callable == fista.pc \in {"idle", "returned", "raised"} /\ fista.calls < MaxCalls

\* a caller's l.fit(Y)
Lasso_fit ==
    /\ Callable
    /\ \E Y \in YsFor(lasso.D) : lasso' = LassoFit(lasso, Y)
    /\ fista' = [pc |-> "idle", calls |-> fista.calls + 1]
    /\ UNCHANGED <<odl, dlsi>>

\* a variant that binds Y only on an instance that has no data yet
SolveBinds_onceOnly(self, Y) == IF self.Y = None THEN LassoFit(self, Y) ELSE self

\* line 113: what solve binds before its first step
SolveBinds(self, Y) == LassoFit(self, Y)

\* lines 112-121: the call of solve up to the head of the for loop
Fista_solve ==
    /\ Callable
    /\ \E Y \in YsFor(lasso.D), useInit \in BOOLEAN, n \in 0..MaxPasses :
          LET Xinit == IF useInit THEN Ones(NCols(lasso.D), NCols(Y))
                       ELSE Zeros(NCols(lasso.D), NCols(Y))
          IN  /\ lasso' = SolveBinds(lasso, Y)
              /\ fista' = [pc |-> "loop", calls |-> fista.calls + 1,
                           Y |-> Y, XinitNone |-> ~useInit, iterations |-> n,
                           tol |-> Tol,
                           Linv |-> RDiv(One, lasso.L),
                           lambdaLiv |-> RDiv(lasso.lamb, lasso.L),
                           x_old |-> Xinit, y_old |-> Xinit, t_old |-> One,
                           it |-> 0, x_new |-> Unbound]
    /\ UNCHANGED <<odl, dlsi>>

\* line 124
XNew(self, f) ==
    shrinkage(MatSub(f.y_old, MatScale(f.Linv, grad(self, f.y_old))), f.lambdaLiv)
\* line 125
TNew(f) == RMul(Half, RAdd(One, RSqrt(RAdd(One, RMul(RI(4), RSq(f.t_old))))))
\* line 126
YNew(self, f) ==
    LET x_new == XNew(self, f)
    IN  MatAdd(x_new, MatScale(RDiv(RSub(f.t_old, One), TNew(f)),
                               MatSub(x_new, f.x_old)))
\* lines 127-128: e < tol
SmallStep(self, f) ==
    LET x_new == XNew(self, f)
    IN  RLt(RDiv(norm1(MatSub(x_new, f.x_old)),
                 RI(NRows(x_new) * NCols(x_new))), f.tol)

\* lines 123-129: a pass of the loop that ends in break
Fista_break ==
    /\ fista.pc = "loop"
    /\ fista.it < fista.iterations
    /\ SmallStep(lasso, fista)
    /\ fista' = [fista EXCEPT !.x_new = XNew(lasso, fista), !.pc = "return"]
    /\ UNCHANGED <<odl, dlsi, lasso>>

\* lines 123-132: a pass of the loop that goes on
Fista_pass ==
    /\ fista.pc = "loop"
    /\ fista.it < fista.iterations
    /\ ~SmallStep(lasso, fista)
    /\ fista' = [fista EXCEPT !.x_new = XNew(lasso, fista),
                              !.x_old = XNew(lasso, fista),
                              !.t_old = TNew(fista),
                              !.y_old = YNew(lasso, fista),
                              !.it = fista.it + 1]
    /\ UNCHANGED <<odl, dlsi, lasso>>

\* line 123: range(iterations) is exhausted
Fista_exhausted ==
    /\ fista.pc = "loop"
    /\ fista.it >= fista.iterations
    /\ fista' = [fista EXCEPT !.pc = "return"]
    /\ UNCHANGED <<odl, dlsi, lasso>>

\* line 135: return x_new; a local never assigned raises UnboundLocalError
Fista_return ==
    /\ fista.pc = "return"
    /\ fista' = IF fista.x_new = Unbound
                THEN [fista EXCEPT !.pc = "raised"]
                ELSE [fista EXCEPT !.pc = "returned"]
    /\ UNCHANGED <<odl, dlsi, lasso>>

NextLasso ==
    Lasso_fit \/ Fista_solve \/ Fista_break \/ Fista_pass \/ Fista_exhausted
        \/ Fista_return

SpecLasso == InitLasso /\ [][NextLasso]_vars

(***************************************************************************)
(* Properties of Fista.solve and Lasso.                                    *)
(***************************************************************************)
IsIdentity(D) == NRows(D) = NCols(D) /\ D = Identity(NRows(D))

\* every entry of M is below t in absolute value
AllBelow(M, t) ==
    \A i \in 1..NRows(M) : \A j \in 1..NCols(M) : RLt(RAbs(M[i][j]), t)

\* C5: on an instance with D the identity, solve on a single-column Y with
\* the default zero initial X returns Y when lamb = 0, and the zero matrix
\* when lamb is above every absolute entry of D^T Y.
C5_LassoSanity ==
    (fista.pc = "returned" /\ IsIdentity(lasso.D) /\ fista.XinitNone
        /\ NCols(fista.Y) = 1) =>
        /\ lasso.lamb = Zero => fista.x_new = fista.Y
        /\ AllBelow(MatMul(Transpose(lasso.D), fista.Y), lasso.lamb) =>
              IsZeros(fista.x_new)

\* C5's case: solve has returned on the 2 x 2 identity with lamb = 0, from
\* the default initial X, after a pass that moved X and one that ended it.
C5_Witness ==
    /\ fista.pc = "returned"
    /\ lasso.D = Identity(2)
    /\ fista.XinitNone
    /\ lasso.lamb = Zero
    /\ fista.it >= 1

\* C6: a call of solve ends by returning a matrix, after at most
\* `iterations` passes of its loop, and never by an error.
C6_SolveReturnsMatrix ==
    /\ fista.pc # "raised"
    /\ fista.pc \in {"loop", "return", "returned"} =>
          fista.it <= fista.iterations
    /\ fista.pc = "returned" => fista.x_new # Unbound

\* the data the instance holds are the ones bound last, and its derived
\* fields are the ones __init__ and fit compute
LassoConsistent ==
    /\ lasso.DtD = MatMul(Transpose(lasso.D), lasso.D)
    /\ lasso.L = MaxEig(MatMul(Transpose(lasso.D), lasso.D))
    /\ IF lasso.Y = None THEN lasso.DtY = None
       ELSE lasso.DtY = MatMul(Transpose(lasso.D), lasso.Y)
    /\ fista.pc \in {"loop", "return", "returned", "raised"} =>
          lasso.Y = fista.Y

====
